---- MODULE Spec2Model ----
(***************************************************************************)
(* State-machine model of githubfuse.py: the GithubOperations FUSE layer   *)
(* (path resolution, getattr synthesis, readdir materialisation and the    *)
(* passthrough operations) over a local cache directory, the memoised      *)
(* get_repos_user remote listing, and the external "git clone" command.    *)
(*                                                                         *)
(* Python strings are sequences of one-character strings, so that the      *)
(* regular expressions of _full_path and readdir are computed, not assumed.*)
(***************************************************************************)
EXTENDS Integers, Sequences, FiniteSets, TLC

VARIABLES fs, cache, recency, last

vars == <<fs, cache, recency, last>>

(***************************************************************************)
(* Bounds of the model.                                                    *)
(***************************************************************************)
\* number of distinct numbered identities the LRU environment may list
MaxIds == 130

\* number of result pages of the login with the most repositories
MaxPages == 21

(***************************************************************************)
(* Strings.                                                                *)
(***************************************************************************)
Letters == {"a","b","c","d","e","f","g","h","i","j","k","l","m","n","o","p","q","r","s","t","u","v","w","x","y","z"}

Digits == {"0","1","2","3","4","5","6","7","8","9"}

\* the characters matched by \w in the patterns of lines 99, 140
WordChars == Letters \cup Digits \cup {"_"}

master == <<"m","a","s","t","e","r">>

dev == <<"d","e","v">>

\* a count that only tells whether the character occurs
Count_Any(s, c) == IF \E i \in 1..Len(s) : s[i] = c THEN 1 ELSE 0

\* str.count(c)
Count(s, c) == Cardinality({i \in 1..Len(s) : s[i] = c})

\* str.lstrip(c)
RECURSIVE LStrip(_, _)
LStrip(s, c) == IF s # <<>> /\ Head(s) = c THEN LStrip(Tail(s), c) ELSE s

\* str.rstrip(c)
RECURSIVE RStrip(_, _)
RStrip(s, c) ==
    IF s # <<>> /\ s[Len(s)] = c THEN RStrip(SubSeq(s, 1, Len(s) - 1), c) ELSE s

\* str.strip(c)
Strip(s, c) == RStrip(LStrip(s, c), c)

\* length of the longest run of \w characters at the start of s
RECURSIVE WordRun(_)
WordRun(s) == IF s # <<>> /\ Head(s) \in WordChars THEN 1 + WordRun(Tail(s)) ELSE 0

\* s without its first n characters
Drop(s, n) == SubSeq(s, n + 1, Len(s))

\* re.sub("@\w+", "", s): every '@' followed by at least one word character
\* is removed together with the whole run of word characters after it
RECURSIVE ReSubRef(_)
ReSubRef(s) ==
    IF s = <<>> THEN <<>>
    ELSE IF Head(s) = "@" /\ WordRun(Tail(s)) > 0
         THEN ReSubRef(Drop(Tail(s), WordRun(Tail(s))))
         ELSE <<Head(s)>> \o ReSubRef(Tail(s))

\* re.findall("@(\w+)", s): the groups of the successive matches
RECURSIVE ReFindallRef(_)
ReFindallRef(s) ==
    IF s = <<>> THEN <<>>
    ELSE IF Head(s) = "@" /\ WordRun(Tail(s)) > 0
         THEN <<SubSeq(Tail(s), 1, WordRun(Tail(s)))>>
                  \o ReFindallRef(Drop(Tail(s), WordRun(Tail(s))))
         ELSE ReFindallRef(Tail(s))

\* re.findall("(.+)@", s): greedy, so the single match ends at the last '@'
\* that has at least one character before it
ReFindallBeforeAt(s) ==
    LET ats == {i \in 2..Len(s) : s[i] = "@"}
    IN  IF ats = {} THEN <<>>
        ELSE <<SubSeq(s, 1, (CHOOSE i \in ats : \A j \in ats : j <= i) - 1)>>

\* str.split(sep): the pieces between the separators, empty pieces included
RECURSIVE Split(_, _)
Split(s, sep) ==
    LET idx == {i \in 1..Len(s) : s[i] = sep}
    IN  IF idx = {} THEN <<s>>
        ELSE LET i == CHOOSE k \in idx : \A j \in idx : k <= j
             IN  <<SubSeq(s, 1, i - 1)>> \o Split(Drop(s, i), sep)

(***************************************************************************)
(* The cache directory (GithubOperations.root) and the local storage.      *)
(* A node is the sequence of the names from the root down to an entry;     *)
(* fs maps every existing node to its kind and to the clone it came from.  *)
(***************************************************************************)
root == <<"/","t","m","p","/","g","i","t","h","u","b">>

\* os.path.join(root, path) for a path without leading separator
OsPathJoin(a, b) ==
    IF b # <<>> /\ Head(b) = "/" THEN b
    ELSE IF a = <<>> \/ a[Len(a)] = "/" THEN a \o b
    ELSE a \o <<"/">> \o b

\* GithubOperations._full_path
_full_path(path) == OsPathJoin(root, LStrip(ReSubRef(path), "/"))

\* the storage's path lookup: the names of a path below the root, empty
\* names (doubled or trailing separators) dropped
NodeOf(full_path) ==
    SelectSeq(Split(Drop(full_path, Len(root)), "/"), LAMBDA seg : seg # <<>>)

\* the parent of a node
Parent(n) == SubSeq(n, 1, Len(n) - 1)

\* n lies at or below m
Under(n, m) == Len(n) >= Len(m) /\ SubSeq(n, 1, Len(m)) = m

Dir == [kind |-> "dir", origin |-> <<>>]

File == [kind |-> "file", origin |-> <<>>]

\* os.path.exists
os_path_exists(fsv, full_path) == NodeOf(full_path) \in DOMAIN fsv

IsDir(fsv, n) == n \in DOMAIN fsv /\ fsv[n].kind = "dir"

Children(fsv, n) == {c \in DOMAIN fsv : Len(c) = Len(n) + 1 /\ Under(c, n)}

\* a set as a list, in some fixed order
RECURSIVE SetToSeq(_)
SetToSeq(S) ==
    IF S = {} THEN <<>> ELSE LET x == CHOOSE y \in S : TRUE IN <<x>> \o SetToSeq(S \ {x})

Range(s) == {s[i] : i \in 1..Len(s)}

\* a listing that leaves out the sub-directories
os_listdir_FilesOnly(fsv, full_path) ==
    SetToSeq({c[Len(c)] : c \in {d \in Children(fsv, NodeOf(full_path)) : fsv[d].kind = "file"}})

\* os.listdir of an existing directory: the names of its entries
os_listdir(fsv, full_path) ==
    SetToSeq({c[Len(c)] : c \in Children(fsv, NodeOf(full_path))})

\* os.stat of an existing node
os_stat(fsv, full_path) ==
    LET n == NodeOf(full_path)
        d == fsv[n].kind = "dir"
    IN  [st_mode  |-> IF d THEN 16877 ELSE 33188,
         st_ino   |-> 100 + Len(n),
         st_dev   |-> 2049,
         st_nlink |-> IF d THEN 2 + Cardinality({c \in Children(fsv, n) : fsv[c].kind = "dir"}) ELSE 1,
         st_uid   |-> 1000,
         st_gid   |-> 1000,
         st_size  |-> IF d THEN 4096 ELSE 12,
         st_atime |-> 1500000000,
         st_mtime |-> 1500000001,
         st_ctime |-> 1500000002]

\* the storage with the nodes of S removed
Without(fsv, S) == [n \in DOMAIN fsv \ S |-> fsv[n]]

\* the storage with node n added (or replaced) as v
With(fsv, n, v) == [m \in DOMAIN fsv \cup {n} |-> IF m = n THEN v ELSE fsv[m]]

(***************************************************************************)
(* The remote service: the repositories of each login, as the pages the    *)
(* API returns them in, and the refs and trees of each repository.         *)
(***************************************************************************)
DigitChar(n) == <<"0","1","2","3","4","5","6","7","8","9">>[n + 1]

\* the login of the k-th numbered identity
IdName(k) == <<"u", DigitChar(k \div 100), DigitChar((k \div 10) % 10), DigitChar(k % 10)>>

\* the virtual path /<login> of the k-th numbered identity
IdPath(k) == <<"/">> \o IdName(k)

NumberedLogins == {IdName(k) : k \in 1..MaxIds}

KnownLogins == {<<"a">>, <<"c">>} \cup NumberedLogins

\* the full_name of the k-th repository of login c
PagedRepo(k) == <<"c", "/", "p", DigitChar(k \div 10), DigitChar(k % 10)>>

\* the full_name values of the repositories of a login, page by page
RemotePages(user) ==
    IF user = <<"a">> THEN << <<(<<"a","/","r">>)>>, <<(<<"a","/","q">>)>> >>
    ELSE IF user = <<"c">> THEN [i \in 1..MaxPages |-> <<PagedRepo(i)>>]
    ELSE IF user \in NumberedLogins THEN << <<(user \o <<"/","r">>)>> >>
    ELSE <<>>

\* the refs a repository has upstream (empty: no such repository)
Upstream(repopath) ==
    IF repopath = <<"a","/","r">> THEN {master, dev, <<"v","1",".","0">>}
    ELSE IF repopath = <<"a","/","q">> THEN {master}
    ELSE {}

\* the file names of the working tree of a ref
UpTree(repopath, ref) == IF ref = dev THEN {<<"f">>, <<"g">>} ELSE {<<"f">>}

\* PaginatedList.get_page(i), pages counted from 0
get_page(pages, i) == IF i + 1 <= Len(pages) THEN pages[i + 1] ELSE <<>>

\* the loop of get_repos_user over range(20), from page i on
RECURSIVE ReposLoop(_, _, _)
ReposLoop(pages, i, repos_list) ==
    IF i >= 20 THEN repos_list
    ELSE LET page == get_page(pages, i)
         IN  IF Len(page) = 0 THEN repos_list
             ELSE ReposLoop(pages, i + 1, repos_list \o get_page(pages, i))

\* the body of get_repos_user: raises when the login is unknown or the
\* service cannot be reached (net = FALSE)
get_repos_user(user, net) ==
    IF net /\ user \in KnownLogins
    THEN [raised |-> FALSE, repos |-> ReposLoop(RemotePages(user), 0, <<>>)]
    ELSE [raised |-> TRUE, repos |-> <<>>]

(***************************************************************************)
(* functools.lru_cache(maxsize=128) around get_repos_user: the entries in  *)
(* order of use, least recently used first.                                *)
(***************************************************************************)
maxsize == 128

CacheKeys(c) == {c[i].key : i \in 1..Len(c)}

\* the position of the entry of a key
CacheIndex(c, key) == CHOOSE i \in 1..Len(c) : c[i].key = key

\* a hit that leaves the order of the entries alone (first in, first out)
CacheHit_NoMove(c, key) == c

\* a hit moves the entry to the most recently used end
CacheHit(c, key) ==
    LET i == CacheIndex(c, key)
    IN  SubSeq(c, 1, i - 1) \o SubSeq(c, i + 1, Len(c)) \o <<c[i]>>

\* a miss stores the result, dropping the least recently used entry when full
CacheMiss(c, key, value) ==
    LET e == [key |-> key, value |-> value]
    IN  IF Len(c) >= maxsize THEN Tail(c) \o <<e>> ELSE Append(c, e)

(***************************************************************************)
(* The external command "git clone <url> <target> -b <branch>" run by      *)
(* os.system.  It succeeds only for a ref the repository has upstream and  *)
(* a target that is absent or an empty directory; it can always fail.  A   *)
(* failed run removes the target it made but not the leading directories   *)
(* it made for it ("leftdirs"), and an interrupted run can leave the       *)
(* target directory behind as well ("partial").                            *)
(***************************************************************************)
\* the ancestors of a node that are missing from the storage
MissingAncestors(fsv, n) == {SubSeq(n, 1, k) : k \in 0..(Len(n) - 1)} \ DOMAIN fsv

CloneCanSucceed(fsv, repopath, full_path, branchname) ==
    LET t == NodeOf(full_path)
    IN  /\ branchname \in Upstream(repopath)
        /\ t # <<>>
        /\ t \notin DOMAIN fsv \/ (IsDir(fsv, t) /\ Children(fsv, t) = {})
        /\ \A k \in 0..(Len(t) - 1) :
              SubSeq(t, 1, k) \in DOMAIN fsv => IsDir(fsv, SubSeq(t, 1, k))

CloneOutcomes(fsv, repopath, full_path, branchname) ==
    {"failed", "partial"}
        \cup (IF MissingAncestors(fsv, NodeOf(full_path)) # {} THEN {"leftdirs"} ELSE {})
        \cup (IF CloneCanSucceed(fsv, repopath, full_path, branchname) THEN {"ok"} ELSE {})

\* a clone whose failure handling removes the owner directory it works in
git_clone_Cleanup(fsv, repopath, full_path, branchname, outcome) ==
    IF outcome = "failed"
    THEN Without(fsv, {n \in DOMAIN fsv : n # <<>> /\ Under(n, SubSeq(NodeOf(full_path), 1, 1))})
    ELSE fsv

\* the storage after the command has run with the given outcome
git_clone(fsv, repopath, full_path, branchname, outcome) ==
    LET t     == NodeOf(full_path)
        made  == MissingAncestors(fsv, t)
        files == {t \o <<name>> : name \in UpTree(repopath, branchname)}
        o     == <<repopath, branchname>>
    IN  IF outcome = "ok"
        THEN [n \in DOMAIN fsv \cup made \cup {t} \cup files |->
                 IF n = t THEN [kind |-> "dir", origin |-> o]
                 ELSE IF n \in files THEN [kind |-> "file", origin |-> o]
                 ELSE IF n \in made THEN Dir
                 ELSE fsv[n]]
        ELSE IF outcome = "partial" /\ t \notin DOMAIN fsv
                 /\ \A a \in DOMAIN fsv : Under(t, a) => IsDir(fsv, a)
        THEN [n \in DOMAIN fsv \cup made \cup {t} |->
                 IF n \in DOMAIN fsv THEN fsv[n] ELSE Dir]
        ELSE IF outcome = "leftdirs"
        THEN [n \in DOMAIN fsv \cup made |-> IF n \in DOMAIN fsv THEN fsv[n] ELSE Dir]
        ELSE fsv

(***************************************************************************)
(* The record of the last request: what it was, which external calls it    *)
(* made, and what it returned.                                             *)
(***************************************************************************)
NoAttrs == [none |-> 0]

NoEntries == [e \in {} |-> 0]

Request(op, path, existed, listed, clones, steps, yielded, attrs, error) ==
    [op |-> op, path |-> path, full_path |-> _full_path(path),
     existed |-> existed, listed |-> listed, clones |-> clones, steps |-> steps,
     yielded |-> yielded, attrs |-> attrs, error |-> error,
     recencyBefore |-> recency, nodesBefore |-> DOMAIN fs]

\* the list of identities ordered by their last served listing, with key
\* moved to the most recent end
Touch(rec, key) == SelectSeq(rec, LAMBDA k : k # key) \o <<key>>

(***************************************************************************)
(* FakeStat and getattr.                                                   *)
(***************************************************************************)
S_IFDIR == 16384

RECURSIVE BitOr(_, _)
BitOr(a, b) ==
    IF a = 0 THEN b
    ELSE IF b = 0 THEN a
    ELSE (IF a % 2 = 1 \/ b % 2 = 1 THEN 1 ELSE 0) + 2 * BitOr(a \div 2, b \div 2)

\* the class attributes of FakeStat
FakeStat ==
    [st_atime |-> 0, st_ctime |-> 0, st_gid |-> 0, st_mode |-> 493,
     st_mtime |-> 0, st_nlink |-> 0, st_size |-> 0, st_uid |-> 0]

\* set_isdir storing the mode without the directory flag
set_isdir_Noop(inst) ==
    [k \in DOMAIN inst \cup {"st_mode"} |->
        IF k = "st_mode" THEN FakeStat.st_mode ELSE inst[k]]

\* FakeStat.set_isdir on an instance whose own __dict__ is inst (a function
\* from attribute names to values): st_mode is read through the class when
\* the instance has none, and is stored on the instance
set_isdir(inst) ==
    LET cur == IF "st_mode" \in DOMAIN inst THEN inst["st_mode"] ELSE FakeStat.st_mode
    IN  [k \in DOMAIN inst \cup {"st_mode"} |->
            IF k = "st_mode" THEN BitOr(cur, S_IFDIR) ELSE inst[k]]

\* the keys getattr copies from os.stat
StatKeys == {"st_atime", "st_ctime", "st_gid", "st_mode", "st_mtime", "st_nlink", "st_size", "st_uid"}

\* a getattr that synthesizes directories down to the repository level only
\* and reports nothing for absent paths below it
getattr_result_NotFound(fsv, path) ==
    IF os_path_exists(fsv, _full_path(path))
    THEN [key \in StatKeys |-> os_stat(fsv, _full_path(path))[key]]
    ELSE IF Count(path, "/") <= 2 THEN set_isdir([k \in {} |-> 0])
    ELSE NoAttrs

\* the value getattr returns
getattr_result(fsv, path) ==
    LET full_path == _full_path(path)
    IN  IF os_path_exists(fsv, full_path)
        THEN [key \in StatKeys |-> os_stat(fsv, full_path)[key]]
        ELSE LET fakestat == IF Count(path, "/") >= 0
                             THEN set_isdir([k \in {} |-> 0])
                             ELSE [k \in {} |-> 0]
             IN  [x \in {k \in DOMAIN fakestat : k \in DOMAIN FakeStat} |-> fakestat[x]]

(***************************************************************************)
(* readdir.                                                                *)
(***************************************************************************)
Dot == <<".">>

DotDot == <<".", ".">>

\* the entries yielded from the list itself, without the set() of line 165
Yielded_NoDedup(dirents) ==
    [e \in Range(dirents) |-> Cardinality({i \in 1..Len(dirents) : dirents[i] = e})]

\* "dirents = set(dirents); for r in dirents: yield r": how often each entry
\* is yielded
Yielded(dirents) == [e \in Range(dirents) |-> 1]

\* a generator that yields what it has collected whatever happened
Generated_Eager(dirents, error) == [e \in Range(dirents) |-> 1]

\* readdir is a generator whose only yields are at its end: an exception in
\* its body leaves nothing yielded
Generated(dirents, error) == IF error = "none" THEN Yielded(dirents) ELSE NoEntries

\* a listing that reads the storage as it was before the clone command ran
AfterClone_Stale(fsv, fs1) == fsv

\* the storage that lines 160-161 read: the one the clone command of line
\* 158 (when it ran) has left, fsv being the storage before it
AfterClone(fsv, fs1) == fs1

\* the whole of GithubOperations.readdir, its generator run to the end.
\* net: whether the remote listing can be served; outcome: how the clone
\* command ends.
readdir_run(fsv, c, path, net, outcome) ==
    LET full_path  == _full_path(path)
        p          == LStrip(path, "/")
        ms         == ReFindallRef(p)
        branchname == IF ms # <<>> THEN ms[1] ELSE master
        isroot     == p = <<>>
        depth1     == ~isroot /\ Count(p, "/") = 0
        user       == Strip(p, "/")
        hit        == depth1 /\ user \in CacheKeys(c)
        call       == get_repos_user(user, net)
        raised     == depth1 /\ ~hit /\ call.raised
        repos      == IF ~depth1 THEN <<>>
                      ELSE IF hit THEN c[CacheIndex(c, user)].value
                      ELSE call.repos
        reposdirs  == [i \in 1..Len(repos) |-> Split(repos[i], "/")[2]]
        c1         == IF ~depth1 \/ raised THEN c
                      ELSE IF hit THEN CacheHit(c, user)
                      ELSE CacheMiss(c, user, call.repos)
        clone      == ~isroot /\ ~raised /\ ~os_path_exists(fsv, full_path)
                          /\ Count(p, "/") = 1
        found      == ReFindallBeforeAt(p)
        indexerror == clone /\ "@" \in Range(p) /\ found = <<>>
        repopath   == IF "@" \in Range(p) THEN found[1] ELSE p
        run        == clone /\ ~indexerror
        fs1        == IF run THEN git_clone(fsv, repopath, full_path, branchname, outcome)
                      ELSE fsv
        stopped    == raised \/ indexerror
        fsl        == AfterClone(fsv, fs1)
        tolist     == ~stopped /\ os_path_exists(fsl, full_path)
        notadir    == tolist /\ ~IsDir(fsl, NodeOf(full_path))
        dirents    == <<Dot, DotDot>> \o reposdirs
                          \o (IF tolist /\ ~notadir THEN os_listdir(fsl, full_path) ELSE <<>>)
        steps      == (IF depth1 /\ ~hit THEN <<"remote_list">> ELSE <<>>)
                          \o (IF run THEN <<"clone">> ELSE <<>>)
                          \o (IF tolist THEN <<"listdir">> ELSE <<>>)
        error      == IF raised THEN "listing"
                      ELSE IF indexerror THEN "IndexError"
                      ELSE IF notadir THEN "OSError"
                      ELSE "none"
    IN  [fs      |-> fs1,
         cache   |-> c1,
         served  |-> depth1 /\ ~raised,
         user    |-> user,
         listed  |-> IF depth1 /\ ~hit THEN <<user>> ELSE <<>>,
         clones  |-> IF run THEN <<[repopath |-> repopath, target |-> full_path,
                                    branch |-> branchname, outcome |-> outcome]>>
                     ELSE <<>>,
         steps   |-> steps,
         asksnet |-> depth1 /\ ~hit,
         runs    |-> run,
         choices |-> IF run THEN CloneOutcomes(fsv, repopath, full_path, branchname)
                     ELSE {"none"},
         yielded |-> Generated(dirents, error),
         error   |-> error]

readdir(path) ==
    \E net \in BOOLEAN, outcome \in {"none", "ok", "failed", "leftdirs", "partial"} :
        LET r == readdir_run(fs, cache, path, net, outcome)
        IN  /\ r.asksnet \/ net
            /\ outcome \in r.choices
            /\ fs' = r.fs
            /\ cache' = r.cache
            /\ recency' = IF r.served THEN Touch(recency, r.user) ELSE recency
            /\ last' = Request("readdir", path, os_path_exists(fs, _full_path(path)),
                               r.listed, r.clones, r.steps, r.yielded, NoAttrs, r.error)

(***************************************************************************)
(* getattr and the passthrough operations.                                 *)
(***************************************************************************)
getattr(path) ==
    /\ last' = Request("getattr", path, os_path_exists(fs, _full_path(path)),
                       <<>>, <<>>, <<>>, NoEntries, getattr_result(fs, path), "none")
    /\ UNCHANGED <<fs, cache, recency>>

\* the outcome of a passthrough call: the new storage, or the storage's error
Passthrough(op, path, ok, fs1) ==
    /\ fs' = IF ok THEN fs1 ELSE fs
    /\ last' = Request(op, path, os_path_exists(fs, _full_path(path)),
                       <<>>, <<>>, <<>>, NoEntries, NoAttrs, IF ok THEN "none" ELSE "OSError")
    /\ UNCHANGED <<cache, recency>>

rmdir(path) ==
    LET n == NodeOf(_full_path(path))
    IN  Passthrough("rmdir", path,
                    n # <<>> /\ IsDir(fs, n) /\ Children(fs, n) = {},
                    Without(fs, {n}))

unlink(path) ==
    LET n == NodeOf(_full_path(path))
    IN  Passthrough("unlink", path,
                    n \in DOMAIN fs /\ fs[n].kind = "file",
                    Without(fs, {n}))

mkdir(path) ==
    LET n == NodeOf(_full_path(path))
    IN  Passthrough("mkdir", path,
                    n \notin DOMAIN fs /\ IsDir(fs, Parent(n)),
                    With(fs, n, Dir))

\* os.rename: the subtree of old becomes the subtree of new
os_rename(fsv, o, n) ==
    LET moved == {m \in DOMAIN fsv : Under(m, o)}
        kept  == (DOMAIN fsv \ moved) \ {n}
        dest  == {n \o Drop(m, Len(o)) : m \in moved}
    IN  [m \in kept \cup dest |->
            IF m \in dest THEN fsv[o \o Drop(m, Len(n))] ELSE fsv[m]]

rename(old, new) ==
    LET o == NodeOf(_full_path(old))
        n == NodeOf(_full_path(new))
    IN  Passthrough("rename", old,
                    /\ o # <<>> /\ o \in DOMAIN fs
                    /\ n # <<>> /\ IsDir(fs, Parent(n))
                    /\ o = n \/ ~Under(n, o)
                    /\ \/ n \notin DOMAIN fs
                       \/ o = n
                       \/ fs[o].kind = "file" /\ fs[n].kind = "file"
                       \/ fs[o].kind = "dir" /\ IsDir(fs, n) /\ Children(fs, n) = {},
                    IF o = n THEN fs ELSE os_rename(fs, o, n))

(***************************************************************************)
(* The requests of the environment.                                        *)
(***************************************************************************)
pRoot == <<"/">>

pA == <<"/", "a">>

pB == <<"/", "b">>

pAR == <<"/", "a", "/", "r">>

pARdev == pAR \o <<"@">> \o dev

pARtag == pAR \o <<"@", "v", "1", ".", "0">>

pARnone == pAR \o <<"@", "n", "o">>

pARf == pAR \o <<"/", "f">>

pARg == pAR \o <<"/", "g">>

pARdevf == pARdev \o <<"/", "f">>

pC == <<"/", "c">>

ListPaths == {pRoot, pA, pB, pAR, pARdev, pARtag, pARnone, pARf}

AttrPaths == {pRoot, pA, pB, pAR, pARdev, pARtag, pARf, pARdevf}

RmdirPaths == {pA, pAR, pARdev}

UnlinkPaths == {pARf, pARdevf}

MkdirPaths == {pA, pAR}

RenamePairs == {<<pARf, pARg>>}

Init ==
    /\ fs = (<<>> :> Dir)
    /\ cache = <<>>
    /\ recency = <<>>
    /\ last = [op |-> "none", path |-> <<>>, full_path |-> <<>>, existed |-> FALSE,
               listed |-> <<>>, clones |-> <<>>, steps |-> <<>>, yielded |-> NoEntries,
               attrs |-> NoAttrs, error |-> "none", recencyBefore |-> <<>>,
               nodesBefore |-> {<<>>}]

DoReaddir == \E path \in ListPaths : readdir(path)

DoGetattr == \E path \in AttrPaths : getattr(path)

DoRmdir == \E path \in RmdirPaths : rmdir(path)

DoUnlink == \E path \in UnlinkPaths : unlink(path)

DoMkdir == \E path \in MkdirPaths : mkdir(path)

DoRename == \E pair \in RenamePairs : rename(pair[1], pair[2])

Next == DoReaddir \/ DoGetattr \/ DoRmdir \/ DoUnlink \/ DoMkdir \/ DoRename

Spec == Init /\ [][Next]_vars

(***************************************************************************)
(* A workload for the listing cache: the numbered identities are listed    *)
(* one after the other, and the first one is listed again at any time.     *)
(***************************************************************************)
DoListIdentity ==
    \E k \in {1, Len(recency) + 1} \cap 1..MaxIds : readdir(IdPath(k))

NextLRU == DoListIdentity

SpecLRU == Init /\ [][NextLRU]_vars

(***************************************************************************)
(* The same requests, with the listing of a login whose repositories fill  *)
(* MaxPages result pages.                                                  *)
(***************************************************************************)
DoReaddirPaged == \E path \in ListPaths \cup {pC} : readdir(path)

NextPages == DoReaddirPaged \/ DoGetattr \/ DoRmdir \/ DoUnlink \/ DoMkdir \/ DoRename

SpecPages == Init /\ [][NextPages]_vars

(***************************************************************************)
(* Vocabulary of the properties: the virtual namespace as the              *)
(* specification describes it, /<identity>/<repo>[@<ref>]/<path...>.       *)
(***************************************************************************)
\* the non-empty segments of a virtual path
VSegs(path) == SelectSeq(Split(path, "/"), LAMBDA seg : seg # <<>>)

VDepth(path) == Len(VSegs(path))

\* the position of the first '@' of a segment, 0 when it has none
AtPos(seg) ==
    IF "@" \in Range(seg) THEN CHOOSE i \in 1..Len(seg) : seg[i] = "@" /\ \A j \in 1..(i - 1) : seg[j] # "@"
    ELSE 0

\* a segment without its ref qualifier
Unqualified(seg) == IF AtPos(seg) = 0 THEN seg ELSE SubSeq(seg, 1, AtPos(seg) - 1)

\* the ref a repository segment asks for
RefOf(seg) == IF AtPos(seg) = 0 THEN master ELSE Drop(seg, AtPos(seg))

\* a path of depth two or more whose repository segment carries a qualifier
Qualified(path) == VDepth(path) >= 2 /\ AtPos(VSegs(path)[2]) > 0

\* the node a virtual path stands for: its segments, the qualifier taken off
\* the repository segment
VNode(path) ==
    [i \in 1..VDepth(path) |-> IF i = 2 THEN Unqualified(VSegs(path)[i]) ELSE VSegs(path)[i]]

\* the local path of a node
LocalPath(n) ==
    IF n = <<>> THEN root \o <<"/">>
    ELSE root \o <<"/">> \o n[1] \o (IF Len(n) > 1 THEN <<"/">> \o n[2] ELSE <<>>)
              \o (IF Len(n) > 2 THEN <<"/">> \o n[3] ELSE <<>>)

IsReaddir == last.op = "readdir"

\* the names of the entries of a directory node
EntryNames(n) == {c[Len(c)] : c \in Children(fs, n)}

\* the repository names the remote holds for a login
RemoteNames(user) ==
    {Split(RemotePages(user)[i][j], "/")[2] :
        i \in 1..Len(RemotePages(user)), j \in 1..1}

\* C1: for a repository absent from the Cache Root, readdir of /owner/repo
\* runs exactly one clone, of master, and readdir of /owner/repo@R exactly
\* one clone of exactly the ref R, into the ref-stripped local path, which
\* exists once a successful clone has returned
C1_OneCloneOfTheRef ==
    /\ (IsReaddir /\ VDepth(last.path) = 2 /\ VNode(last.path) \notin last.nodesBefore)
           => /\ Len(last.clones) = 1
              /\ last.clones[1].branch = RefOf(VSegs(last.path)[2])
              /\ last.clones[1].target = LocalPath(VNode(last.path))
              /\ last.clones[1].outcome = "ok" => VNode(last.path) \in DOMAIN fs
    /\ (IsReaddir /\ VDepth(last.path) = 2 /\ IsDir(fs, VNode(last.path))
               /\ VNode(last.path) \in last.nodesBefore)
           => /\ last.clones = <<>>
              /\ DOMAIN last.yielded = {Dot, DotDot} \cup EntryNames(VNode(last.path))

\* C2: the first readdir of /<identity> makes exactly one remote-listing call
\* for that identity and yields '.', '..', the repository names of the remote
\* and the local entries under the identity, each name once
C2_FirstIdentityListing ==
    (IsReaddir /\ VDepth(last.path) = 1 /\ last.error = "none"
            /\ VSegs(last.path)[1] \notin Range(last.recencyBefore))
        => /\ last.listed = <<VSegs(last.path)[1]>>
           /\ DOMAIN last.yielded =
                  {Dot, DotDot} \cup RemoteNames(VSegs(last.path)[1])
                      \cup EntryNames(VNode(last.path))
           /\ \A e \in DOMAIN last.yielded : last.yielded[e] = 1

C2_Witness ==
    /\ IsReaddir /\ last.path = pA /\ last.error = "none"
    /\ last.listed = <<(<<"a">>)>>
    /\ <<(<<"a">>), (<<"r">>)>> \in DOMAIN fs

\* C3: a readdir whose clone fails ends in an error, and runs no second clone
C3_CloneFailureSurfaces ==
    (IsReaddir /\ Len(last.clones) >= 1 /\ last.clones[1].outcome # "ok")
        => last.error # "none" /\ Len(last.clones) = 1

\* C4 as stated: no step of any operation removes a path from the Cache Root
C4_Monotonic == [][DOMAIN fs \subseteq DOMAIN fs']_vars

\* C4 amended: readdir and getattr never remove a path: every path that
\* existed under the Cache Root before such a request exists after it
C4_ListingKeepsPaths ==
    last.op \in {"readdir", "getattr"} => last.nodesBefore \subseteq DOMAIN fs

C4_Witness ==
    /\ IsReaddir /\ Len(last.clones) = 1 /\ last.clones[1].outcome = "ok"
    /\ Cardinality(last.nodesBefore) >= 3
    /\ DOMAIN fs # last.nodesBefore

\* C5: for a path with a ref qualifier on its repository segment, _full_path
\* is the local path of the unqualified path, whatever the ref
C5_QualifierRemoved ==
    (last.op # "none" /\ Qualified(last.path))
        => last.full_path = LocalPath(VNode(last.path))

\* the flag S_IFDIR is set in a mode
IsDirMode(mode) == (mode \div S_IFDIR) % 2 = 1

\* C6: getattr on a depth-1 or depth-2 path whose local path is absent
\* reports a directory; getattr on a path whose local path exists returns
\* the values of the storage's stat, unchanged
C6_GetattrDirOrStat ==
    last.op = "getattr"
        => /\ (~last.existed /\ VDepth(last.path) \in {1, 2})
                  => "st_mode" \in DOMAIN last.attrs /\ IsDirMode(last.attrs["st_mode"])
           /\ last.existed
                  => /\ DOMAIN last.attrs = StatKeys
                     /\ \A key \in StatKeys :
                            last.attrs[key] = os_stat(fs, last.full_path)[key]

C6_Witness ==
    /\ last.op = "getattr" /\ last.path = pARdev /\ ~last.existed
    /\ <<(<<"a">>)>> \in DOMAIN fs

\* the identities whose listing is still within the capacity of the cache:
\* the 128 most recently served ones
Window(rec) == {rec[i] : i \in {j \in 1..Len(rec) : j > Len(rec) - 128}}

\* C7: a readdir of an identity that was listed before and not evicted since
\* makes no remote-listing call; the cache never holds more than 128
\* identities, and those it holds are the most recently used ones, so that
\* the one dropped on overflow is the least recently used
C7_CacheHitUntilEvicted ==
    /\ (IsReaddir /\ VDepth(last.path) = 1
            /\ VSegs(last.path)[1] \in Window(last.recencyBefore))
           => last.listed = <<>>
    /\ Len(cache) <= 128
    /\ CacheKeys(cache) = Window(recency)

C7_Witness ==
    /\ IsReaddir /\ last.path = IdPath(1) /\ last.listed = <<>> /\ last.error = "none"
    /\ Len(recency) > 128
    /\ IdName(2) \notin CacheKeys(cache)

\* C8: readdir of '/' makes no remote-listing call and no clone, and yields
\* exactly '.', '..' and the entries of the Cache Root
C8_RootListing ==
    (IsReaddir /\ last.path = pRoot)
        => /\ last.listed = <<>>
           /\ last.clones = <<>>
           /\ last.error = "none"
           /\ DOMAIN last.yielded = {Dot, DotDot} \cup EntryNames(<<>>)
           /\ DOMAIN fs = last.nodesBefore

C8_Witness ==
    /\ IsReaddir /\ last.path = pRoot
    /\ <<(<<"a">>)>> \in DOMAIN fs

\* C9: a readdir of /<identity> whose remote-listing call fails yields no
\* entry at all, and no list is put in the place of the missing one
C9_ListingFailureYieldsNothing ==
    (IsReaddir /\ last.error = "listing")
        => /\ DOMAIN last.yielded = {}
           /\ VSegs(last.path)[1] \notin CacheKeys(cache)

C9_Witness ==
    /\ IsReaddir /\ last.path = pA /\ last.error = "listing"
    /\ <<(<<"a">>), (<<"r">>)>> \in DOMAIN fs

\* the repository node of a readdir request is a directory that was there
\* before the request and does not hold a clone
StaleRepoDir ==
    /\ IsReaddir /\ VDepth(last.path) = 2
    /\ VNode(last.path) \in last.nodesBefore
    /\ IsDir(fs, VNode(last.path))
    /\ fs[VNode(last.path)].origin = <<>>

\* C11: a directory at a repository's local path that does not hold a
\* complete clone is not taken for a materialized repository: the readdir of
\* that repository runs the clone again
C11_IncompleteNotMaterialized == StaleRepoDir => Len(last.clones) >= 1

\* the repository node of a readdir request held a clone before the request,
\* of another ref than the one the request asks for
OtherRefCloned ==
    /\ IsReaddir /\ VDepth(last.path) = 2
    /\ VNode(last.path) \in last.nodesBefore
    /\ IsDir(fs, VNode(last.path))
    /\ fs[VNode(last.path)].origin # <<>>
    /\ fs[VNode(last.path)].origin[2] # RefOf(VSegs(last.path)[2])

\* C12: once a repository is cloned at a ref, a readdir of it with another
\* ref qualifier runs no clone and yields the contents of the clone on disk
C12_FirstRefServed ==
    OtherRefCloned
        => /\ last.clones = <<>>
           /\ DOMAIN last.yielded = {Dot, DotDot} \cup EntryNames(VNode(last.path))
           /\ DOMAIN fs = last.nodesBefore

\* C13: for a path absent from local storage getattr returns the directory
\* flag with mode 0o755 and the size, link count, owner and time fields, each
\* present with value 0
C13_SynthesizedFields ==
    (last.op = "getattr" /\ ~last.existed)
        => /\ DOMAIN last.attrs = StatKeys
           /\ last.attrs["st_mode"] = 16384 + 493
           /\ \A key \in StatKeys \ {"st_mode"} : last.attrs[key] = 0

\* how often a repository occurs in the list the cache holds for a login
Occurrences(user, repo) ==
    LET value == cache[CacheIndex(cache, user)].value
    IN  Cardinality({i \in 1..Len(value) : value[i] = repo})

\* C14: the list get_repos_user returns holds every repository of every
\* result page of the login, each once
C14_AllPagesListed ==
    (IsReaddir /\ last.listed # <<>> /\ last.error = "none")
        => \A i \in 1..Len(RemotePages(last.listed[1])) :
               \A j \in 1..Len(RemotePages(last.listed[1])[i]) :
                   Occurrences(last.listed[1], RemotePages(last.listed[1])[i][j]) = 1

\* the repository names of the requests, without their qualifiers
RequestedRepoNames ==
    {Unqualified(VSegs(path)[2]) : path \in {q \in ListPaths \cup AttrPaths : VDepth(q) >= 2}}

\* C15: no path under the Cache Root, no local path used for a lookup and no
\* clone target holds a ref qualifier or a part of one
C15_NoQualifierOnDisk ==
    /\ \A n \in DOMAIN fs :
           /\ \A i \in 1..Len(n) : "@" \notin Range(n[i])
           /\ Len(n) >= 2 => n[2] \in RequestedRepoNames
    /\ last.op # "none" => "@" \notin Range(last.full_path)
    /\ \A i \in 1..Len(last.clones) :
           NodeOf(last.clones[i].target)[2] \in RequestedRepoNames

\* the last request is a readdir that failed: its remote listing raised, or
\* its clone command did not succeed
FailedListing ==
    /\ IsReaddir
    /\ \/ last.error = "listing"
       \/ Len(last.clones) >= 1 /\ last.clones[1].outcome # "ok"

\* C16: a failed listing leaves the Cache Root and the listing cache as they
\* were, so that later requests see what they would have seen without it
C16_FailedListingNoEffect == [][FailedListing' => (fs' = fs /\ cache' = cache)]_vars

\* the place of an external step in the order remote listing, clone, local
\* listing
StepRank(step) ==
    IF step = "remote_list" THEN 1 ELSE IF step = "clone" THEN 2 ELSE 3

\* C17: within one readdir the external steps come in the order remote
\* listing, clone, local listing, each at most once; the local listing is
\* read after the clone has returned, so it shows what the clone left
C17_StepsInOrder ==
    IsReaddir
        => /\ \A i \in 1..Len(last.steps) : \A j \in 1..Len(last.steps) :
                  i < j => StepRank(last.steps[i]) < StepRank(last.steps[j])
           /\ (Len(last.clones) >= 1 /\ last.error = "none")
                  => DOMAIN last.yielded =
                         {Dot, DotDot} \cup EntryNames(NodeOf(last.clones[1].target))

C17_Witness ==
    /\ IsReaddir /\ last.steps = <<"clone", "listdir">>
    /\ last.clones[1].outcome = "ok"
    /\ <<"f">> \in DOMAIN last.yielded

\* C18: a readdir makes a remote-listing call only for a depth-1 path and
\* runs a clone only for a depth-2 path whose local path is absent, never
\* both; at depth 1 and at depth 3 or deeper it leaves the Cache Root as it
\* was, and at depth 3 or deeper it makes neither call
C18_GatedByDepth ==
    IsReaddir
        => /\ last.listed # <<>> => VDepth(last.path) = 1
           /\ last.clones # <<>> => (VDepth(last.path) = 2 /\ ~last.existed)
           /\ ~(last.listed # <<>> /\ last.clones # <<>>)
           /\ VDepth(last.path) # 2 => DOMAIN fs = last.nodesBefore
           /\ VDepth(last.path) >= 3 => (last.listed = <<>> /\ last.clones = <<>>)

C18_Witness ==
    /\ IsReaddir /\ last.path = pARf
    /\ <<(<<"a">>), (<<"r">>)>> \notin DOMAIN fs
    /\ <<(<<"a">>)>> \in DOMAIN fs

====
